---- MODULE Spec2Model ----
(***************************************************************************)
(* Userspace ELF loader: parse_elf.rs (header and program-header parser),  *)
(* load_elf.rs (segment mapper), stack_setup.rs (initial stack) and        *)
(* main.rs (pipeline and trampoline).                                      *)
(*                                                                         *)
(* A file is a sequence of cells, one per byte of the real file.  A field  *)
(* of a packed little-endian struct sits at its real byte offset; its      *)
(* value is held in the first cell of the field and the other cells of     *)
(* the field are 0 (the ELF magic is held byte by byte).  usize/u64 values *)
(* are taken modulo UsizeMod, u16 values modulo U16Mod.                    *)
(* Rust arithmetic with the plain operators panics on overflow when the    *)
(* build has overflow checks (debug profile) and wraps when it has not     *)
(* (release profile): overflow_checks is the profile of the build.         *)
(***************************************************************************)
EXTENDS Integers, Sequences, FiniteSets, TLC

VARIABLES
    pc,              \* position of the loader process
    overflow_checks, \* build profile: TRUE = debug (checked), FALSE = release
    args,            \* std::env::args(): sequence of byte strings
    env,             \* std::env::vars(): sequence of <<name, value>>
    victim_file,     \* <<>> (unreadable) or <<bytes>>: the file at args[1]
    interp_file,     \* <<>> or <<bytes>>: the file at the PT_INTERP path
    parsing,         \* which parse_elf call is active: "victim" / "interp"
    buffer,          \* parse_elf: the bytes read from the file
    hdr,             \* parse_elf: <<>> or <<ElfHdr>>
    examined,        \* file offsets of the program headers read by the victim's parse_segments
    binary_info,     \* main: <<>> or <<LoadInfo>> of the victim
    loader_info,     \* main: <<>> or <<LoadInfo>> of the interpreter
    pages,           \* address space: mapped page number -> protection set
    mem,             \* contents: address -> cell, for the addresses written since they were mapped
    syscalls,        \* log of the mmap, memcpy and mprotect calls made so far
    loading,         \* which load() call is active: "victim" / "interp"
    load_addr,       \* load(): the address mmap returned
    load_base,       \* load(): the offset added to every virt_addr
    seg_idx,         \* load(): number of segments already populated
    loader_load,     \* main: <<>> or <<load_addr>> of the interpreter
    binary_load,     \* main: <<>> or <<load_addr>> of the victim
    entry_point,     \* main: entry_point
    interp_base,     \* main: interp_base
    auxv,            \* the loader's own auxiliary vector: id -> value (libc::getauxval)
    stack_end,       \* setup_stack: the address mmap returned (low end of the stack)
    stack_pointer,   \* setup_stack: stack_pointer
    env_vec,         \* setup_stack: env, the addresses of the environment strings
    stack_args,      \* setup_stack: args after args.remove(1)
    argv_vec,        \* setup_stack: argv, the addresses of the argument strings
    seed_bytes,      \* setup_stack: the 16 bytes drawn from the RNG
    prng_pointer,    \* setup_stack: prng_pointer
    rsp,             \* setup_stack: rsp, the value returned
    regs,            \* trampoline: general-purpose registers at the jump
    rip              \* trampoline: instruction pointer after ret

parse_vars == <<parsing, buffer, hdr, examined, binary_info, loader_info>>
input_vars == <<overflow_checks, args, env, victim_file, interp_file, auxv>>
mem_vars   == <<pages, mem, syscalls>>
load_vars  == <<loading, load_addr, load_base, seg_idx>>
main_vars  == <<loader_load, binary_load, entry_point, interp_base>>
stack_vars == <<stack_end, stack_pointer, env_vec, stack_args, argv_vec, seed_bytes,
                prng_pointer, rsp>>
cpu_vars   == <<regs, rip>>
vars == <<pc, input_vars, parse_vars, mem_vars, load_vars, main_vars, stack_vars, cpu_vars>>

-----------------------------------------------------------------------------
(* Integer widths *)

\* 2^64 scaled down: usize and u64 are integers modulo UsizeMod
UsizeMod == 16777216

\* u16 is an integer modulo 2^16
U16Mod == 65536

UAdd(a, b) == (a + b) % UsizeMod
USub(a, b) == (a + UsizeMod - b) % UsizeMod
AddOvf(a, b) == a + b >= UsizeMod
SubOvf(a, b) == a < b

\* bit test of a single-bit mask
HasBit(x, bit) == (x \div bit) % 2 = 1

-----------------------------------------------------------------------------
(* parse_elf.rs *)

PT_LOAD == 1
PT_INTERP == 3
SIZE_OF_ELF_HDR == 64
SIZE_OF_PROGRAM_HDR == 56
CLASS_64_BIT == 2
ELF_EXEC == 2
ELF_DYN == 3
LINUX_ABI == 3
SYSTEMV_ABI == 0
X86_MACHINE == 3
AMD64_MACHINE == 62

\* load_elf.rs
PF_X == 1
PF_W == 2
PF_R == 4
ELF_MIN_ALIGNMENT == 4096

\* the cell at byte offset off of a buffer
Cell(buf, off) == buf[off + 1]

\* buf[lo..hi] of Rust
Slice(buf, lo, hi) == SubSeq(buf, lo + 1, hi)

\* transmute of the first 64 bytes into the packed ElfHdr (fields the loader reads)
ElfHdrParse(buf) ==
    [ magic           |-> Slice(buf, 0, 4),
      class           |-> Cell(buf, 4),
      os_abi          |-> Cell(buf, 7),
      etype           |-> Cell(buf, 16),
      machine         |-> Cell(buf, 18),
      entry_point     |-> Cell(buf, 24),
      program_headers |-> Cell(buf, 32),
      pheader_size    |-> Cell(buf, 54),
      pheader_num     |-> Cell(buf, 56) ]

\* u32::from_be(self.magic) on a little-endian machine: the four file bytes read big-endian
MagicFromBe(h) ==
    h.magic[1] * 16777216 + h.magic[2] * 65536 + h.magic[3] * 256 + h.magic[4]

\* ElfHdr::verify, without the check of pheader_size
VerifyNoPhentCheck(h) ==
    /\ MagicFromBe(h) = 2135247942
    /\ h.class = CLASS_64_BIT
    /\ (h.etype = ELF_EXEC \/ h.etype = ELF_DYN)
    /\ (h.os_abi = LINUX_ABI \/ h.os_abi = SYSTEMV_ABI)
    /\ (h.machine = X86_MACHINE \/ h.machine = AMD64_MACHINE)

\* ElfHdr::verify: TRUE when every assertion passes
Verify(h) ==
    /\ MagicFromBe(h) = 2135247942
    /\ h.class = CLASS_64_BIT
    /\ (h.etype = ELF_EXEC \/ h.etype = ELF_DYN)
    /\ (h.os_abi = LINUX_ABI \/ h.os_abi = SYSTEMV_ABI)
    /\ (h.machine = X86_MACHINE \/ h.machine = AMD64_MACHINE)
    /\ h.pheader_size = SIZE_OF_PROGRAM_HDR

\* transmute of 56 bytes at off into the packed Elf64Phdr
Elf64PhdrAt(buf, off) ==
    [ ptype  |-> Cell(buf, off),
      pflags |-> Cell(buf, off + 4),
      offset |-> Cell(buf, off + 8),
      vaddr  |-> Cell(buf, off + 16),
      paddr  |-> Cell(buf, off + 24),
      filesz |-> Cell(buf, off + 32),
      memsz  |-> Cell(buf, off + 40),
      align  |-> Cell(buf, off + 48) ]

\* ElfSegment::get_prot_flags_from_progam_flags
GetProtFlags(program_flags) ==
    (IF HasBit(program_flags, PF_X) THEN {"EXEC"} ELSE {})
    \cup (IF HasBit(program_flags, PF_W) THEN {"WRITE"} ELSE {})
    \cup (IF HasBit(program_flags, PF_R) THEN {"READ"} ELSE {})

\* ElfSegment::new
ElfSegmentNew(ph, data) ==
    [ virt_addr |-> ph.vaddr,
      memsize   |-> ph.memsz,
      filesize  |-> ph.filesz,
      alignment |-> ph.align,
      data      |-> data,
      offset    |-> ph.offset,
      prot      |-> GetProtFlags(ph.pflags) ]

\* vaddr & (0x1000 - 1)
PageOff(vaddr) == vaddr % 4096

\* the PT_LOAD branch of parse_segments: [ok, seg]
ParseLoad(ph, buf, oc) ==
    LET po         == PageOff(ph.vaddr)
        offset     == USub(ph.offset, po)
        span       == UAdd(ph.filesz, po)
        end_offset == offset + span
        ok         == /\ ~(oc /\ (SubOvf(ph.offset, po) \/ AddOvf(ph.filesz, po)))
                      /\ end_offset < UsizeMod
                      /\ end_offset < Len(buf)
    IN  [ ok  |-> ok,
          seg |-> IF ok THEN <<ElfSegmentNew(ph, Slice(buf, offset, end_offset))>> ELSE <<>> ]

\* String::from_utf8 on bytes that are never part of a multi-byte sequence
Utf8Ok(bytes) == \A i \in 1..Len(bytes) : bytes[i] < 128

\* the PT_INTERP branch of parse_segments: [ok, path]
ParseInterp(ph, buf, oc) ==
    LET offset == ph.offset
        sum    == UAdd(offset, ph.filesz)
        end    == USub(sum, 1)
        ok     == /\ ~(oc /\ (AddOvf(offset, ph.filesz) \/ SubOvf(sum, 1)))
                  /\ offset <= end
                  /\ end <= Len(buf)
                  /\ Utf8Ok(Slice(buf, offset, end))
    IN  [ ok   |-> ok,
          path |-> IF ok THEN <<Slice(buf, offset, end)>> ELSE <<>> ]

\* the while loop of parse_segments from current_offset on
RECURSIVE WalkProgramHeaders(_, _, _, _, _)
WalkProgramHeaders(buf, oc, current_offset, max_offset, acc) ==
    IF ~(current_offset < max_offset) THEN acc
    ELSE IF current_offset + SIZE_OF_PROGRAM_HDR > Len(buf) THEN [acc EXCEPT !.ok = FALSE]
    ELSE
      LET ph   == Elf64PhdrAt(buf, current_offset)
          seen == [acc EXCEPT !.examined = Append(@, current_offset)]
          next == current_offset + SIZE_OF_PROGRAM_HDR
      IN  IF ph.ptype = PT_LOAD THEN
              LET r == ParseLoad(ph, buf, oc)
              IN  IF r.ok
                  THEN WalkProgramHeaders(buf, oc, next, max_offset,
                                          [seen EXCEPT !.res = Append(@, r.seg[1])])
                  ELSE [seen EXCEPT !.ok = FALSE]
          ELSE IF ph.ptype = PT_INTERP THEN
              LET r == ParseInterp(ph, buf, oc)
              IN  IF r.ok
                  THEN WalkProgramHeaders(buf, oc, next, max_offset,
                                          [seen EXCEPT !.elf_interp = r.path])
                  ELSE [seen EXCEPT !.ok = FALSE]
          ELSE WalkProgramHeaders(buf, oc, next, max_offset, seen)

\* (self.pheader_num * self.pheader_size): a u16 product
TableBytes(h) == (h.pheader_num * h.pheader_size) % U16Mod

\* ElfHdr::parse_segments: [ok, elf_interp, res, examined]
ParseSegments(h, buf, oc) ==
    LET current_offset == h.program_headers
        max_offset     == current_offset + TableBytes(h)
        empty          == [ok |-> TRUE, elf_interp |-> <<>>, res |-> <<>>, examined |-> <<>>]
    IN  IF \/ oc /\ h.pheader_num * h.pheader_size >= U16Mod
           \/ max_offset >= UsizeMod
           \/ ~(max_offset < Len(buf))
        THEN [empty EXCEPT !.ok = FALSE]
        ELSE WalkProgramHeaders(buf, oc, current_offset, max_offset, empty)

\* ElfType::from
ElfTypeFrom(etype) == IF etype = ELF_EXEC THEN "ElfExec" ELSE "ElfDyn"

\* the LoadInfo built at the end of parse_elf
LoadInfoOf(h, r) ==
    [ entry_point |-> h.entry_point,
      pheader_off |-> h.program_headers,
      pheader_num |-> h.pheader_num,
      segments    |-> r.res,
      elf_interp  |-> r.elf_interp,
      etype       |-> ElfTypeFrom(h.etype) ]

-----------------------------------------------------------------------------
(* Address space: pages of ELF_MIN_ALIGNMENT bytes *)

PageNo(a) == a \div ELF_MIN_ALIGNMENT

\* the pages that [addr, addr + len) touches
PagesOf(addr, len) == IF len = 0 THEN {} ELSE PageNo(addr)..PageNo(addr + len - 1)

\* addresses the kernel may return for a mapping placed without MAP_FIXED
MmapBases == {6291456, 7340032, 8323072}

\* a fresh anonymous mapping of the pages ps with protection prot
MapPages(pg, ps, prot) ==
    [p \in DOMAIN pg \cup ps |-> IF p \in ps THEN prot ELSE pg[p]]

\* contents after the pages ps were replaced by fresh zero pages
DropContents(m, ps) ==
    [a \in {x \in DOMAIN m : PageNo(x) \notin ps} |-> m[a]]

\* memcpy / a store faults unless every page it touches is mapped writable
Writable(pg, addr, len) ==
    \A p \in PagesOf(addr, len) : p \in DOMAIN pg /\ "WRITE" \in pg[p]

\* libc::memcpy(addr, data, data.len())
MemWrite(m, addr, data) ==
    LET dst == addr..(addr + Len(data) - 1)
    IN  [a \in DOMAIN m \cup dst |-> IF a \in dst THEN data[a - addr + 1] ELSE m[a]]

\* the cell at address a (fresh anonymous memory reads 0)
Read(m, a) == IF a \in DOMAIN m THEN m[a] ELSE 0

\* mprotect(addr, size, prot) over mapped pages
Protect(pg, addr, size, prot) ==
    [p \in DOMAIN pg |-> IF p \in PagesOf(addr, size) THEN prot ELSE pg[p]]

-----------------------------------------------------------------------------
(* load_elf.rs *)

\* x & !15
Floor16(x) == x - (x % 16)

\* addr & ELF_MIN_ALIGNMENT_MASK
PageFloor(x) == x - (x % ELF_MIN_ALIGNMENT)

\* ElfLoad::get_total_mapping_size: [ovf, size]
GetTotalMappingSize(segments) ==
    LET last == segments[Len(segments)]
        sum  == UAdd(last.virt_addr, last.memsize)
        low  == Floor16(segments[1].virt_addr)
    IN  [ ovf  |-> AddOvf(last.virt_addr, last.memsize) \/ SubOvf(sum, low),
          size |-> USub(sum, low) ]

\* the address passed to mmap: [ovf, addr]
MmapAddr(li) ==
    IF li.etype = "ElfExec"
    THEN [ ovf  |-> SubOvf(li.segments[1].virt_addr, li.segments[1].offset),
           addr |-> USub(li.segments[1].virt_addr, li.segments[1].offset) ]
    ELSE [ ovf |-> FALSE, addr |-> 0 ]

\* the range a segment is copied to and re-protected over: [ovf, addr, size]
SegmentRange(base, seg) ==
    LET addr0 == UAdd(base, seg.virt_addr)
        size0 == UAdd(seg.filesize, addr0 % ELF_MIN_ALIGNMENT)
        size1 == UAdd(size0, ELF_MIN_ALIGNMENT - 1)
    IN  [ ovf  |-> \/ AddOvf(base, seg.virt_addr)
                   \/ AddOvf(seg.filesize, addr0 % ELF_MIN_ALIGNMENT)
                   \/ AddOvf(size0, ELF_MIN_ALIGNMENT - 1),
          addr |-> PageFloor(addr0),
          size |-> PageFloor(size1) ]

\* the LoadInfo the active load() call works on
ActiveInfo == IF loading = "interp" THEN loader_info[1] ELSE binary_info[1]

\* mmap(addr, len, READ|WRITE, PRIVATE|ANONYMOUS|FIXED): the kernel accepts a
\* page-aligned range above page 0 inside the address space
MmapFixedOk(addr, len) ==
    /\ len > 0
    /\ addr % ELF_MIN_ALIGNMENT = 0
    /\ addr > 0
    /\ addr + len <= UsizeMod

\* the bases at which len bytes are free for a mapping without MAP_FIXED
FreeBases(pg, len) ==
    {b \in MmapBases : PagesOf(b, len) \cap DOMAIN pg = {}}

-----------------------------------------------------------------------------
(* Actions: main.rs, parse_elf *)

\* main: the argument check
MainArgs ==
    /\ pc = "main"
    /\ IF Len(args) = 1
       THEN pc' = "aborted" /\ UNCHANGED parsing
       ELSE pc' = "open" /\ parsing' = "victim"
    /\ UNCHANGED <<input_vars, buffer, hdr, examined, binary_info, loader_info,
                   mem_vars, load_vars, main_vars,
                   stack_vars, cpu_vars>>

\* parse_elf: File::open and read_to_end
FileOpen ==
    /\ pc = "open"
    /\ LET file == IF parsing = "victim" THEN victim_file ELSE interp_file
       IN  IF file = <<>>
           THEN pc' = "aborted" /\ UNCHANGED buffer
           ELSE pc' = "hdr_parse" /\ buffer' = file[1]
    /\ UNCHANGED <<input_vars, parsing, hdr, examined, binary_info, loader_info,
                   mem_vars, load_vars, main_vars,
                   stack_vars, cpu_vars>>

\* ElfHdr::parse
HdrParse ==
    /\ pc = "hdr_parse"
    /\ IF SIZE_OF_ELF_HDR <= Len(buffer)
       THEN pc' = "hdr_verify" /\ hdr' = <<ElfHdrParse(buffer)>>
       ELSE pc' = "aborted" /\ UNCHANGED hdr
    /\ UNCHANGED <<input_vars, parsing, buffer, examined, binary_info, loader_info,
                   mem_vars, load_vars, main_vars,
                   stack_vars, cpu_vars>>

\* ElfHdr::verify
HdrVerify ==
    /\ pc = "hdr_verify"
    /\ pc' = IF Verify(hdr[1]) THEN "parse_segments" ELSE "aborted"
    /\ UNCHANGED <<input_vars, parse_vars, mem_vars, load_vars, main_vars,
                   stack_vars, cpu_vars>>

\* ElfHdr::parse_segments, the LoadInfo of parse_elf, and what main does with it
ParseSegmentsStep ==
    /\ pc = "parse_segments"
    /\ LET r    == ParseSegments(hdr[1], buffer, overflow_checks)
           info == LoadInfoOf(hdr[1], r)
       IN  /\ examined' = IF parsing = "victim" THEN r.examined ELSE examined
           /\ IF ~r.ok
              THEN /\ pc' = "aborted"
                   /\ UNCHANGED <<parsing, binary_info, loader_info, loading,
                                  entry_point, interp_base>>
              ELSE IF parsing = "interp"
              THEN /\ loader_info' = <<info>>
                   /\ loading' = "interp"
                   /\ pc' = "load_mmap"
                   /\ UNCHANGED <<parsing, binary_info, entry_point, interp_base>>
              ELSE IF info.elf_interp # <<>>
              THEN /\ binary_info' = <<info>>
                   /\ parsing' = "interp"
                   /\ pc' = "open"
                   /\ UNCHANGED <<loader_info, loading, entry_point, interp_base>>
              ELSE /\ binary_info' = <<info>>
                   /\ entry_point' = info.entry_point
                   /\ interp_base' = 0
                   /\ loading' = "victim"
                   /\ pc' = "load_mmap"
                   /\ UNCHANGED <<parsing, loader_info>>
    /\ UNCHANGED <<input_vars, buffer, hdr, mem_vars, load_addr, load_base, seg_idx,
                   loader_load, binary_load, stack_vars, cpu_vars>>

-----------------------------------------------------------------------------
(* Actions: ElfLoad::load *)

\* load(): the reservation (mmap) and load_base
LoadMmap ==
    /\ pc = "load_mmap"
    /\ LET li == ActiveInfo
       IN  IF Len(li.segments) = 0
           THEN pc' = "aborted" /\ UNCHANGED <<mem_vars, load_addr, load_base>>
           ELSE
             LET ma    == MmapAddr(li)
                 ts    == GetTotalMappingSize(li.segments)
                 fixed == li.etype = "ElfExec"
             IN  IF overflow_checks /\ (ma.ovf \/ ts.ovf)
                 THEN pc' = "aborted" /\ UNCHANGED <<mem_vars, load_addr, load_base>>
                 ELSE IF (fixed /\ ~MmapFixedOk(ma.addr, ts.size))
                         \/ (~fixed /\ (ts.size = 0 \/ FreeBases(pages, ts.size) = {}))
                 THEN /\ pc' = "aborted"
                      /\ syscalls' = Append(syscalls,
                            [call |-> "mmap", addr |-> ma.addr, len |-> ts.size, ret |-> -1])
                      /\ UNCHANGED <<pages, mem, load_addr, load_base>>
                 ELSE \E got \in (IF fixed THEN {ma.addr} ELSE FreeBases(pages, ts.size)) :
                      /\ pages' = MapPages(pages, PagesOf(got, ts.size), {"READ", "WRITE"})
                      /\ mem' = DropContents(mem, PagesOf(got, ts.size))
                      /\ syscalls' = Append(syscalls,
                            [call |-> "mmap", addr |-> ma.addr, len |-> ts.size, ret |-> got])
                      /\ load_addr' = got
                      /\ load_base' = IF ma.addr = 0 THEN got ELSE 0
                      /\ pc' = "load_seg"
    /\ seg_idx' = 0
    /\ UNCHANGED <<input_vars, parse_vars, loading, main_vars, stack_vars, cpu_vars>>

\* load(): one iteration of the loop over the segments (memcpy, then mprotect);
\* a call that faults or fails is logged with ret -1
LoadSegment ==
    /\ pc = "load_seg"
    /\ seg_idx < Len(ActiveInfo.segments)
    /\ LET seg == ActiveInfo.segments[seg_idx + 1]
           r   == SegmentRange(load_base, seg)
           n   == Len(seg.data)
           cpy == [call |-> "memcpy", addr |-> r.addr, len |-> n, ret |-> 0]
           prt == [call |-> "mprotect", addr |-> r.addr, len |-> r.size, ret |-> 0]
       IN  IF overflow_checks /\ r.ovf
           THEN pc' = "aborted" /\ UNCHANGED <<mem_vars, seg_idx>>
           ELSE IF ~Writable(pages, r.addr, n)
           THEN /\ pc' = "segv"
                /\ syscalls' = Append(syscalls, [cpy EXCEPT !.ret = -1])
                /\ UNCHANGED <<pages, mem, seg_idx>>
           ELSE IF ~(PagesOf(r.addr, r.size) \subseteq DOMAIN pages)
           THEN /\ pc' = "aborted"
                /\ mem' = MemWrite(mem, r.addr, seg.data)
                /\ syscalls' = syscalls \o <<cpy, [prt EXCEPT !.ret = -1]>>
                /\ UNCHANGED <<pages, seg_idx>>
           ELSE /\ mem' = MemWrite(mem, r.addr, seg.data)
                /\ pages' = Protect(pages, r.addr, r.size, seg.prot)
                /\ syscalls' = syscalls \o <<cpy, prt>>
                /\ seg_idx' = seg_idx + 1
                /\ pc' = "load_seg"
    /\ UNCHANGED <<input_vars, parse_vars, loading, load_addr, load_base, main_vars,
                   stack_vars, cpu_vars>>

\* load() returns; main takes the result
LoadReturn ==
    /\ pc = "load_seg"
    /\ seg_idx = Len(ActiveInfo.segments)
    /\ IF loading = "interp"
       THEN IF overflow_checks /\ AddOvf(loader_info[1].entry_point, load_addr)
            THEN pc' = "aborted" /\ UNCHANGED <<loading, main_vars>>
            ELSE /\ loader_load' = <<load_addr>>
                 /\ entry_point' = UAdd(loader_info[1].entry_point, load_addr)
                 /\ interp_base' = load_addr
                 /\ loading' = "victim"
                 /\ pc' = "load_mmap"
                 /\ UNCHANGED binary_load
       ELSE /\ binary_load' = <<load_addr>>
            /\ pc' = "stack"
            /\ UNCHANGED <<loading, loader_load, entry_point, interp_base>>
    /\ UNCHANGED <<input_vars, parse_vars, mem_vars, load_addr, load_base, seg_idx,
                   stack_vars, cpu_vars>>

-----------------------------------------------------------------------------
(* stack_setup.rs *)

AT_SYSINFO_EHDR == 33
AT_HWCAP == 16
AT_PAGESZ == 6
AT_CLKTCK == 17
AT_PHDR == 3
AT_PHENT == 4
AT_PHNUM == 5
AT_BASE == 7
AT_FLAGS == 8
AT_ENTRY == 9
AT_UID == 11
AT_EUID == 12
AT_GID == 13
AT_EGID == 14
AT_SECURE == 23
AT_RANDOM == 25
AT_HWCAP2 == 26
AT_EXECFN == 31
AT_NULL == 0
PHENT_SIZE == 56

\* stack_size: 1024 * 256 in the source, scaled down
stack_size == 1024

\* "x86_64\0"
PlatformString == <<120, 56, 54, 95, 54, 52, 0>>

\* the 8 bytes write_pointer stores for a value, little-endian
LE8(v) ==
    << v % 256, (v \div 256) % 256, (v \div 65536) % 256, (v \div 16777216) % 256,
       0, 0, 0, 0 >>

RECURSIVE Words(_)
\* the bytes a run of write_pointer calls stores for a sequence of values
Words(vals) == IF vals = <<>> THEN <<>> ELSE LE8(Head(vals)) \o Words(Tail(vals))

RECURSIVE Reverse(_)
Reverse(q) == IF q = <<>> THEN <<>> ELSE Append(Reverse(Tail(q)), Head(q))

\* format!("{}={}\0", env_name, env_val)
EnvVar(pair) == pair[1] \o <<61>> \o pair[2] \o <<0>>

\* Vec::remove(1)
Remove1(v) == <<v[1]>> \o SubSeq(v, 3, Len(v))

\* libc::getauxval
GetAuxVal(id) == auxv[id]

\* the value written for AT_EXECFN
ExecFn(argv) == argv[1]

\* AT_ENTRY without the load address for ElfDyn
AtEntryUnrelocated(li, load_address) == [ovf |-> FALSE, val |-> li.entry_point]

\* the value written for AT_ENTRY: [ovf, val]
AtEntry(li, load_address) ==
    IF li.etype = "ElfExec"
    THEN [ovf |-> FALSE, val |-> li.entry_point]
    ELSE [ovf |-> AddOvf(load_address, li.entry_point),
          val |-> UAdd(load_address, li.entry_point)]

\* the (id, value) pairs of the auxiliary vector in the order they are written
AuxPairs(li, load_address, base, prng, argv) ==
    << <<AT_SYSINFO_EHDR, GetAuxVal(AT_SYSINFO_EHDR)>>,
       <<AT_HWCAP, GetAuxVal(AT_HWCAP)>>,
       <<AT_PAGESZ, GetAuxVal(AT_PAGESZ)>>,
       <<AT_CLKTCK, GetAuxVal(AT_CLKTCK)>>,
       <<AT_HWCAP2, GetAuxVal(AT_HWCAP2)>>,
       <<AT_PHDR, UAdd(load_address, li.pheader_off)>>,
       <<AT_PHENT, PHENT_SIZE>>,
       <<AT_PHNUM, li.pheader_num>>,
       <<AT_BASE, base>>,
       <<AT_FLAGS, 0>>,
       <<AT_ENTRY, AtEntry(li, load_address).val>>,
       <<AT_UID, GetAuxVal(AT_UID)>>,
       <<AT_EUID, GetAuxVal(AT_EUID)>>,
       <<AT_GID, GetAuxVal(AT_GID)>>,
       <<AT_EGID, GetAuxVal(AT_EGID)>>,
       <<AT_SECURE, GetAuxVal(AT_SECURE)>>,
       <<AT_RANDOM, prng>>,
       <<AT_EXECFN, ExecFn(argv)>>,
       <<AT_NULL, 0>> >>

RECURSIVE FlattenPairs(_)
FlattenPairs(ps) == IF ps = <<>> THEN <<>> ELSE Head(ps) \o FlattenPairs(Tail(ps))

\* the table with the argv pointers in push order
PointerTablePushOrder(argv, envv) == <<Len(argv)>> \o argv \o <<0>> \o envv \o <<0>>

\* the values of the table write-out before the auxiliary vector:
\* argc, the argv pointers in reverse push order, 0, the envp pointers, 0
PointerTable(argv, envv) == <<Len(argv)>> \o Reverse(argv) \o <<0>> \o envv \o <<0>>

\* the reservation without the final alignment
ReserveTablesUnaligned(sp, argc, envc) == sp - 288 - ((argc + 1) + (envc + 1) + 1) * 8

\* the cursor after the reservation for auxiliary vector and pointer tables
ReserveTables(sp, argc, envc) ==
    Floor16(sp - 288 - ((argc + 1) + (envc + 1) + 1) * 8)

\* the 16 bytes the RNG may yield
SeedChoices ==
    { [i \in 1..16 |-> 160 + i], [i \in 1..16 |-> 255] }

-----------------------------------------------------------------------------
(* Actions: setup_stack *)

\* setup_stack: the stack mapping and the first alignment
StackMmap ==
    /\ pc = "stack"
    /\ IF FreeBases(pages, stack_size) = {}
       THEN /\ pc' = "aborted"
            /\ syscalls' = Append(syscalls,
                  [call |-> "mmap", addr |-> 0, len |-> stack_size, ret |-> -1])
            /\ UNCHANGED <<pages, stack_end, stack_pointer>>
       ELSE \E got \in FreeBases(pages, stack_size) :
            /\ pages' = MapPages(pages, PagesOf(got, stack_size), {"READ", "WRITE"})
            /\ syscalls' = Append(syscalls,
                  [call |-> "mmap", addr |-> 0, len |-> stack_size, ret |-> got])
            /\ stack_end' = got
            /\ stack_pointer' = Floor16(got + stack_size + 15)
            /\ pc' = "stack_env"
    /\ env_vec' = <<>>
    /\ argv_vec' = <<>>
    /\ UNCHANGED <<input_vars, parse_vars, mem, load_vars, main_vars, stack_args,
                   seed_bytes, prng_pointer, rsp, cpu_vars>>

\* setup_stack: one iteration of the loop over std::env::vars()
StackPushEnv ==
    /\ pc = "stack_env"
    /\ Len(env_vec) < Len(env)
    /\ LET env_var == EnvVar(env[Len(env_vec) + 1])
           sp      == stack_pointer - Len(env_var)
       IN  /\ stack_pointer' = sp
           /\ env_vec' = Append(env_vec, sp)
           /\ IF Writable(pages, sp, Len(env_var))
              THEN mem' = MemWrite(mem, sp, env_var) /\ pc' = "stack_env"
              ELSE pc' = "segv" /\ UNCHANGED mem
    /\ UNCHANGED <<input_vars, parse_vars, pages, syscalls, load_vars, main_vars,
                   stack_end, stack_args, argv_vec, seed_bytes, prng_pointer, rsp, cpu_vars>>

\* setup_stack: std::env::args().collect() and args.remove(1)
StackCollectArgs ==
    /\ pc = "stack_env"
    /\ Len(env_vec) = Len(env)
    /\ IF Len(args) < 2
       THEN pc' = "aborted" /\ UNCHANGED stack_args
       ELSE pc' = "stack_args" /\ stack_args' = Remove1(args)
    /\ UNCHANGED <<input_vars, parse_vars, mem_vars, load_vars, main_vars, stack_end,
                   stack_pointer, env_vec, argv_vec, seed_bytes, prng_pointer, rsp, cpu_vars>>

\* setup_stack: one iteration of the loop over args.iter_mut().rev()
StackPushArg ==
    /\ pc = "stack_args"
    /\ Len(argv_vec) < Len(stack_args)
    /\ LET arg        == stack_args[Len(stack_args) - Len(argv_vec)]
           sp         == stack_pointer - (Len(arg) + 1)
           argv_bytes == Append(arg, 0)
       IN  /\ stack_pointer' = sp
           /\ argv_vec' = Append(argv_vec, sp)
           /\ IF Writable(pages, sp, Len(argv_bytes))
              THEN mem' = MemWrite(mem, sp, argv_bytes) /\ pc' = "stack_args"
              ELSE pc' = "segv" /\ UNCHANGED mem
    /\ UNCHANGED <<input_vars, parse_vars, pages, syscalls, load_vars, main_vars,
                   stack_end, stack_args, env_vec, seed_bytes, prng_pointer, rsp, cpu_vars>>

\* setup_stack: alignment, platform string, seed, and the reservation that fixes rsp
StackReserve ==
    /\ pc = "stack_args"
    /\ Len(argv_vec) = Len(stack_args)
    /\ \E seed \in SeedChoices :
       LET platform == Floor16(stack_pointer) - Len(PlatformString)
           prng     == platform - Len(seed)
           sp       == ReserveTables(prng, Len(argv_vec), Len(env_vec))
       IN  /\ seed_bytes' = seed
           /\ prng_pointer' = prng
           /\ stack_pointer' = sp
           /\ rsp' = sp
           /\ IF Writable(pages, prng, Len(seed) + Len(PlatformString))
              THEN /\ mem' = MemWrite(MemWrite(mem, platform, PlatformString), prng, seed)
                   /\ pc' = "stack_tables"
              ELSE pc' = "segv" /\ UNCHANGED mem
    /\ UNCHANGED <<input_vars, parse_vars, pages, syscalls, load_vars, main_vars,
                   stack_end, stack_args, env_vec, argv_vec, cpu_vars>>

\* setup_stack: argc, the argv pointers, NULL, the envp pointers, NULL
StackTables ==
    /\ pc = "stack_tables"
    /\ LET bytes == Words(PointerTable(argv_vec, env_vec))
       IN  /\ stack_pointer' = stack_pointer + Len(bytes)
           /\ IF Writable(pages, stack_pointer, Len(bytes))
              THEN mem' = MemWrite(mem, stack_pointer, bytes) /\ pc' = "stack_aux"
              ELSE pc' = "segv" /\ UNCHANGED mem
    /\ UNCHANGED <<input_vars, parse_vars, pages, syscalls, load_vars, main_vars,
                   stack_end, stack_args, env_vec, argv_vec, seed_bytes, prng_pointer,
                   rsp, cpu_vars>>

\* setup_stack: the auxiliary vector; returns rsp
StackAux ==
    /\ pc = "stack_aux"
    /\ LET li    == binary_info[1]
           la    == binary_load[1]
           bytes == Words(FlattenPairs(AuxPairs(li, la, interp_base, prng_pointer, argv_vec)))
       IN  IF overflow_checks /\ (AddOvf(la, li.pheader_off) \/ AtEntry(li, la).ovf)
           THEN pc' = "aborted" /\ UNCHANGED <<mem, stack_pointer>>
           ELSE /\ stack_pointer' = stack_pointer + Len(bytes)
                /\ IF Writable(pages, stack_pointer, Len(bytes))
                   THEN mem' = MemWrite(mem, stack_pointer, bytes) /\ pc' = "trampoline"
                   ELSE pc' = "segv" /\ UNCHANGED mem
    /\ UNCHANGED <<input_vars, parse_vars, pages, syscalls, load_vars, main_vars,
                   stack_end, stack_args, env_vec, argv_vec, seed_bytes, prng_pointer,
                   rsp, cpu_vars>>

-----------------------------------------------------------------------------
(* Actions: the trampoline of main.rs *)

RegNames == {"rax", "rbx", "rcx", "rdx", "rsi", "rdi", "rbp", "rsp",
             "r8", "r9", "r10", "r11", "r12", "r13", "r14", "r15"}

\* the registers the asm block clears with xor
Cleared == {"rax", "rbx", "rcx", "rdx", "rdi", "rsi",
            "r9", "r10", "r11", "r12", "r13", "r14", "r15"}

\* values a register may hold when the asm block is entered
JunkChoices == {0, 48879}

\* the asm block: mov rsp, rax; push rbx; xor ...; ret
Trampoline ==
    /\ pc = "trampoline"
    /\ \E junk \in JunkChoices :
       LET before == [r \in RegNames |->
                        IF r = "rax" THEN rsp ELSE IF r = "rbx" THEN entry_point ELSE junk]
           pushed == before["rax"] - 8
       IN  IF ~Writable(pages, pushed, 8)
           THEN pc' = "segv" /\ UNCHANGED <<mem, cpu_vars>>
           ELSE /\ mem' = MemWrite(mem, pushed, LE8(before["rbx"]))
                /\ regs' = [r \in RegNames |->
                              IF r = "rsp" THEN pushed + 8
                              ELSE IF r \in Cleared THEN 0 ELSE before[r]]
                /\ rip' = before["rbx"]
                /\ pc' = "entered"
    /\ UNCHANGED <<input_vars, parse_vars, pages, syscalls, load_vars, main_vars, stack_vars>>

-----------------------------------------------------------------------------
(* Input files *)

ElfMagic == <<127, 69, 76, 70>>

\* the 64 bytes of an ELF header with the fields of f
MkHdr(f) ==
    [i \in 1..64 |->
        CASE i <= 4 -> f.magic[i]
          [] i = 5  -> f.class
          [] i = 8  -> f.os_abi
          [] i = 17 -> f.etype
          [] i = 19 -> f.machine
          [] i = 25 -> f.entry
          [] i = 33 -> f.phoff
          [] i = 55 -> f.phentsize
          [] i = 57 -> f.phnum
          [] OTHER  -> 0]

\* the 56 bytes of a program header with the fields of p
MkPhdr(p) ==
    [i \in 1..56 |->
        CASE i = 1  -> p.ptype
          [] i = 5  -> p.pflags
          [] i = 9  -> p.offset
          [] i = 17 -> p.vaddr
          [] i = 25 -> p.vaddr
          [] i = 33 -> p.filesz
          [] i = 41 -> p.memsz
          [] i = 49 -> 4096
          [] OTHER  -> 0]

RECURSIVE MkTable(_)
MkTable(phs) == IF phs = <<>> THEN <<>> ELSE MkPhdr(Head(phs)) \o MkTable(Tail(phs))

\* n bytes of section contents: non-zero, different at neighbouring offsets
Filler(n) == [i \in 1..n |-> 129 + (i % 100)]

\* a file: header, program-header table at offset 64, then tail, then filler up to len bytes
MkFile(f, phs, tail, len) ==
    LET head == MkHdr(f) \o MkTable(phs) \o tail
    IN  IF Len(head) >= len THEN SubSeq(head, 1, len) ELSE head \o Filler(len - Len(head))

Hdr(etype, entry, phnum) ==
    [ magic |-> ElfMagic, class |-> 2, os_abi |-> 0, etype |-> etype, machine |-> 62,
      entry |-> entry, phoff |-> 64, phentsize |-> 56, phnum |-> phnum ]

Ph(ptype, pflags, offset, vaddr, filesz, memsz) ==
    [ ptype |-> ptype, pflags |-> pflags, offset |-> offset, vaddr |-> vaddr,
      filesz |-> filesz, memsz |-> memsz ]

\* a static executable: text at 0x400000, data and bss in the next page
ExecPhdrs == << Ph(1, 5, 0, 4194304, 32, 32), Ph(1, 6, 192, 4198592, 8, 16) >>
ExecFile == MkFile(Hdr(2, 4194320, 2), ExecPhdrs, <<>>, 256)

\* a position-independent executable that names an interpreter ("i" NUL at offset 176)
DynPhdrs == << Ph(3, 4, 176, 176, 2, 2), Ph(1, 5, 0, 0, 40, 48) >>
DynFile == MkFile(Hdr(3, 16, 2), DynPhdrs, <<105, 0>>, 200)

\* a static position-independent executable
StaticPieFile == MkFile(Hdr(3, 16, 1), << Ph(1, 7, 0, 0, 24, 24) >>, <<>>, 160)

\* the interpreter
LdSoFile == MkFile(Hdr(3, 8, 1), << Ph(1, 5, 0, 0, 16, 16) >>, <<>>, 160)

\* ExecFile with one header field changed
WithField(file, off, v) == [file EXCEPT ![off + 1] = v]

\* files of every rejected header category
RejectedFiles ==
    { SubSeq(ExecFile, 1, 63), SubSeq(ExecFile, 1, 0),
      WithField(ExecFile, 0, 0), WithField(ExecFile, 3, 71),
      WithField(ExecFile, 4, 1), WithField(ExecFile, 16, 1), WithField(ExecFile, 16, 4),
      WithField(ExecFile, 7, 9), WithField(ExecFile, 18, 40),
      WithField(ExecFile, 54, 64), WithField(StaticPieFile, 54, 0),
      WithField(DynFile, 54, 57) }

\* files with an accepted header whose program headers parse_segments refuses
BrokenTableFiles ==
    { WithField(ExecFile, 32, 250), WithField(ExecFile, 56, 4),
      WithField(ExecFile, 64 + 32, 300), WithField(DynFile, 64 + 32, 0) }

-----------------------------------------------------------------------------
(* The pipeline of main.rs *)

ArgvChoices == { << <<108>> >>, << <<108>>, <<118>> >>, << <<108>>, <<118>>, <<97, 98>> >> }
EnvChoices == { <<>>, << << <<80>>, <<47, 98>> >> >> }

InitCommon ==
    /\ parsing = "victim"
    /\ buffer = <<>>
    /\ hdr = <<>>
    /\ examined = <<>>
    /\ binary_info = <<>>
    /\ loader_info = <<>>
    /\ mem = <<>>
    /\ syscalls = <<>>
    /\ loading = "victim"
    /\ load_addr = 0
    /\ load_base = 0
    /\ seg_idx = 0
    /\ loader_load = <<>>
    /\ binary_load = <<>>
    /\ entry_point = 0
    /\ interp_base = 0
    /\ stack_end = 0
    /\ stack_pointer = 0
    /\ env_vec = <<>>
    /\ stack_args = <<>>
    /\ argv_vec = <<>>
    /\ seed_bytes = <<>>
    /\ prng_pointer = 0
    /\ rsp = 0
    /\ regs = <<>>
    /\ rip = 0

\* the loader's own auxiliary vector: every id present, or none (getauxval yields 0)
AuxvChoices ==
    { [id \in 0..40 |-> 1000 + id], [id \in 0..40 |-> 0] }

Init ==
    /\ pc = "main"
    /\ overflow_checks \in BOOLEAN
    /\ args \in ArgvChoices
    /\ env \in EnvChoices
    /\ victim_file \in {<<>>} \cup {<<f>> : f \in {ExecFile, DynFile, StaticPieFile}
                                                  \cup RejectedFiles \cup BrokenTableFiles}
    /\ interp_file \in {<<>>, <<LdSoFile>>, <<WithField(LdSoFile, 4, 1)>>}
    /\ auxv \in AuxvChoices
    /\ pages = <<>>
    /\ InitCommon

Next ==
    \/ MainArgs
    \/ FileOpen
    \/ HdrParse
    \/ HdrVerify
    \/ ParseSegmentsStep
    \/ LoadMmap
    \/ LoadSegment
    \/ LoadReturn
    \/ StackMmap
    \/ StackPushEnv
    \/ StackCollectArgs
    \/ StackPushArg
    \/ StackReserve
    \/ StackTables
    \/ StackAux
    \/ Trampoline

\* the whole loader on well-formed, rejected and broken files
Spec == Init /\ [][Next]_vars

-----------------------------------------------------------------------------
(* The parser on many header and program-header values *)

\* ExecFile with its first program header replaced
OneLoad(offset, vaddr, filesz) ==
    MkFile(Hdr(2, vaddr, 1), << Ph(1, 5, offset, vaddr, filesz, filesz) >>, <<>>, 256)

LoadFieldFiles ==
    { OneLoad(offset, vaddr, filesz) :
        offset \in {0, 1, 100, 200, 255, 300},
        vaddr  \in {4194304, 4194305, 4194404},
        filesz \in {0, 8, 56, 156, UsizeMod - 1, UsizeMod - 100} }

\* ExecFile (two entries) and a three-entry file, with phnum and phoff changed
ThreePhdrs == << Ph(1, 5, 0, 4194304, 32, 32), Ph(6, 4, 64, 64, 168, 168),
                 Ph(1, 6, 240, 4198640, 8, 16) >>
ThreeFile == MkFile(Hdr(2, 4194320, 3), ThreePhdrs, <<>>, 300)

TableFieldFiles ==
    { WithField(WithField(f, 56, phnum), 32, phoff) :
        f \in {ExecFile, ThreeFile},
        phnum \in {0, 1, 2, 3, 4, 5, 1170, 1171, 1172, 2341, 65535},
        phoff \in {64, 0, 120, 200, UsizeMod - 1} }

\* PT_INTERP entries with filesz and offset changed
InterpFieldFiles ==
    { WithField(WithField(DynFile, 64 + 32, filesz), 64 + 8, offset) :
        filesz \in {0, 1, 2, 3, 100, UsizeMod - 1},
        offset \in {176, 0, 199, 200, 1} }

ParseFiles ==
    {ExecFile, DynFile, StaticPieFile} \cup RejectedFiles
        \cup LoadFieldFiles \cup TableFieldFiles \cup InterpFieldFiles

InitParse ==
    /\ pc = "main"
    /\ overflow_checks \in BOOLEAN
    /\ args = << <<108>>, <<118>> >>
    /\ env = <<>>
    /\ victim_file \in {<<f>> : f \in ParseFiles}
    /\ interp_file = <<LdSoFile>>
    /\ auxv \in AuxvChoices
    /\ pages = <<>>
    /\ InitCommon

NextParse ==
    \/ MainArgs
    \/ FileOpen
    \/ HdrParse
    \/ HdrVerify
    \/ ParseSegmentsStep

SpecParse == InitParse /\ [][NextParse]_vars

-----------------------------------------------------------------------------
(* The mapper on many segment lists *)

\* a file with the given type and PT_LOAD list
SegFile(etype, phs) == MkFile(Hdr(etype, phs[1].vaddr, Len(phs)), phs, <<>>, 64 + 56 * Len(phs) + 40)

\* one segment at the start of the file: every flag set, with and without a long tail
OneSegmentFiles ==
    { SegFile(etype, << Ph(1, pflags, 0, vaddr, 16, memsz) >>) :
        etype \in {2, 3}, pflags \in 0..7, memsz \in {16, 24, 6144},
        vaddr \in {0, 4096, 4194304} }

TwoSegmentFiles ==
    { SegFile(etype, << Ph(1, f1, 0, vaddr, 16, m1), Ph(1, f2, o2, vaddr + v2, 8, m2) >>) :
        etype \in {2, 3}, vaddr \in {0, 4194304},
        f1 \in {5, 6}, f2 \in {4, 6}, m1 \in {16, 24},
        o2 \in {32}, v2 \in {32, 4096 + 32, 8192}, m2 \in {8, 4100} }

OddSegmentFiles ==
    { SegFile(2, << Ph(1, 5, 8, 4194312, 16, 16) >>),
      SegFile(2, << Ph(1, 5, 8, 4194304, 16, 16) >>),
      SegFile(2, << Ph(1, 5, 100, 50, 16, 16) >>),
      SegFile(2, << Ph(1, 5, 0, 4194304, 16, UsizeMod - 10) >>),
      SegFile(3, << Ph(1, 5, 0, 8192, 16, 16), Ph(1, 6, 32, 32, 8, 8) >>),
      SegFile(3, << Ph(1, 6, 0, 0, 16, 0) >>),
      SegFile(3, << Ph(1, 6, 0, 0, 0, 0) >>),
      MkFile(Hdr(3, 0, 0), <<>>, <<>>, 100),
      DynFile }

LoadFiles == OneSegmentFiles \cup TwoSegmentFiles \cup OddSegmentFiles

\* the loader's own mappings next to the addresses the kernel hands out
HostPages == { <<>>, (1537 :> {"READ", "WRITE"}) @@ (1538 :> {"READ"}) }

InitLoad ==
    /\ pc = "main"
    /\ overflow_checks \in BOOLEAN
    /\ args = << <<108>>, <<118>> >>
    /\ env = <<>>
    /\ victim_file \in {<<f>> : f \in LoadFiles}
    /\ interp_file = <<LdSoFile>>
    /\ auxv \in {[id \in 0..40 |-> 1000 + id]}
    /\ pages \in HostPages
    /\ InitCommon

NextLoad ==
    \/ MainArgs
    \/ FileOpen
    \/ HdrParse
    \/ HdrVerify
    \/ ParseSegmentsStep
    \/ LoadMmap
    \/ LoadSegment
    \/ LoadReturn

SpecLoad == InitLoad /\ [][NextLoad]_vars

-----------------------------------------------------------------------------
(* The stack builder on many argument vectors and environments *)

ArgvStackChoices ==
    { << <<108>>, <<118>> >>,
      << <<108, 100>>, <<118>> >>,
      << <<108>>, <<118>>, <<97, 98>> >>,
      << <<108, 100, 114>>, <<46, 47, 118>>, <<97>>, <<>> >>,
      << <<108>>, <<118>>, <<97>>, <<98, 98>>, <<99, 99, 99>> >> }

EnvStackChoices ==
    { <<>>,
      << << <<80>>, <<47, 98>> >> >>,
      << << <<80>>, <<47, 98>> >>, << <<72, 79>>, <<>> >> >>,
      << << <<65>>, <<49>> >>, << <<66>>, <<50, 50>> >>, << <<67, 67>>, <<51>> >> >>,
      << << <<66>>, [i \in 1..(stack_size + 76) |-> 65] >> >> }

\* the loader's own writable mappings right below the addresses the kernel hands
\* out (e.g. a heap chunk obtained with mmap), or none
StackHostPages ==
    { <<>>, [p \in {PageNo(b) - 1 : b \in MmapBases} |-> {"READ", "WRITE"}] }

InitStack ==
    /\ pc = "main"
    /\ overflow_checks \in BOOLEAN
    /\ args \in ArgvStackChoices
    /\ env \in EnvStackChoices
    /\ victim_file \in {<<ExecFile>>, <<DynFile>>, <<StaticPieFile>>}
    /\ interp_file = <<LdSoFile>>
    /\ auxv \in AuxvChoices
    /\ pages \in StackHostPages
    /\ InitCommon

SpecStack == InitStack /\ [][Next]_vars

-----------------------------------------------------------------------------
(* Claims about the parser *)

\* the rejected header categories, read off the bytes of the file
RejectedHeader(file) ==
    \/ Len(file) < 64
    \/ SubSeq(file, 1, 4) # <<127, 69, 76, 70>>
    \/ file[5] # 2
    \/ file[17] \notin {2, 3}
    \/ file[8] \notin {0, 3}
    \/ file[19] \notin {3, 62}
    \/ file[55] # 56

MapCalls == {i \in 1..Len(syscalls) : syscalls[i].call \in {"mmap", "mprotect"}}

\* C1: a victim file in a rejected header category never yields a LoadInfo, the run
\* never gets past the header checks (it can only end aborted), and no mmap or
\* mprotect call is ever made.
C1_RejectedHeaderAborts ==
    (victim_file # <<>> /\ RejectedHeader(victim_file[1])) =>
        /\ binary_info = <<>>
        /\ MapCalls = {}
        /\ pc \in {"main", "open", "hdr_parse", "hdr_verify", "aborted"}
        /\ (pc # "aborted" => ENABLED Next)

\* C1 witness: a file with phentsize 64 and an otherwise valid header was read,
\* its header parsed, and the run aborted
C1_Witness ==
    /\ pc = "aborted"
    /\ victim_file # <<>>
    /\ Len(victim_file[1]) >= 64
    /\ victim_file[1][55] = 64
    /\ hdr # <<>>
    /\ hdr[1].pheader_size = 64

\* the program headers a walk of exactly phnum entries from phoff sees
TrueEntries(file) ==
    [i \in 1..file[57] |-> Elf64PhdrAt(file, file[33] + 56 * (i - 1))]

\* [lo, hi) lies inside the file
InFile(file, lo, hi) == 0 <= lo /\ lo <= hi /\ hi <= Len(file)

\* C2: when parse_elf returns a LoadInfo, the program-header table and every PT_LOAD
\* slice [offset - page_off, offset + filesize) lie inside the file, and every
\* segment's data is that slice, filesize + page_off bytes long.
C2_SlicesInsideFile ==
    (binary_info # <<>>) =>
        LET file == victim_file[1]
            segs == binary_info[1].segments
        IN  /\ InFile(file, file[33], file[33] + 56 * file[57])
            /\ \A i \in 1..file[57] :
                   LET ph == TrueEntries(file)[i]
                   IN  ph.ptype = 1 =>
                         InFile(file, ph.offset - (ph.vaddr % 4096), ph.offset + ph.filesz)
            /\ \A k \in 1..Len(segs) :
                   LET po == segs[k].virt_addr % 4096
                   IN  /\ Len(segs[k].data) = segs[k].filesize + po
                       /\ InFile(file, segs[k].offset - po, segs[k].offset + segs[k].filesize)
                       /\ segs[k].data = SubSeq(file, segs[k].offset - po + 1,
                                                segs[k].offset + segs[k].filesize)

RECURSIVE LoadsOf(_)
\* the PT_LOAD entries of a sequence of program headers, in order
LoadsOf(phs) ==
    IF phs = <<>> THEN <<>>
    ELSE IF Head(phs).ptype = 1 THEN <<Head(phs)>> \o LoadsOf(Tail(phs))
    ELSE LoadsOf(Tail(phs))

\* C3: when parse_elf returns a LoadInfo, parse_segments has read exactly phnum
\* entries, the i-th at phoff + 56*i, and the segments are the PT_LOAD entries
\* among them in file order.
C3_WalksPhnumEntries ==
    (binary_info # <<>>) =>
        LET file == victim_file[1]
            segs == binary_info[1].segments
        IN  /\ examined = [i \in 1..file[57] |-> file[33] + 56 * (i - 1)]
            /\ InFile(file, file[33], file[33] + 56 * file[57])
            /\ LET loads == LoadsOf(TrueEntries(file))
               IN  /\ Len(segs) = Len(loads)
                   /\ \A k \in 1..Len(segs) :
                          /\ segs[k].virt_addr = loads[k].vaddr
                          /\ segs[k].offset = loads[k].offset
                          /\ segs[k].filesize = loads[k].filesz
                          /\ segs[k].memsize = loads[k].memsz

-----------------------------------------------------------------------------
(* Claims about the mapper *)

\* the base load() adds to the victim's virtual addresses
VictimBase == IF binary_info[1].etype = "ElfExec" THEN 0 ELSE binary_load[1]

\* C4: after load() returns for the victim, every segment's file bytes are in
\* memory at base + virt_addr, and every byte of its memsize - filesize tail is
\* zero, for all segments together.
C4_BytesAndZeroTail ==
    (pc = "stack") =>
        LET file == victim_file[1]
            segs == binary_info[1].segments
        IN  \A k \in 1..Len(segs) :
              LET S  == segs[k]
                  lo == VictimBase + S.virt_addr
              IN  /\ \A i \in 0..(S.filesize - 1) :
                         Read(mem, lo + i) = file[S.offset + i + 1]
                  /\ \A a \in DOMAIN mem :
                         (lo + S.filesize <= a /\ a < lo + S.memsize) => mem[a] = 0

\* the mmap call whose reservation the j-th logged call works in
ReservationOf(j) ==
    LET ms == {i \in 1..(j - 1) : syscalls[i].call = "mmap"}
    IN  syscalls[CHOOSE i \in ms : \A h \in ms : h <= i]

\* [lo, lo + len) lies in the reservation r, rounded up to whole pages
InReservation(lo, len, r) ==
    len = 0 \/ (r.ret <= lo /\ lo + len <= r.ret + PageFloor(r.len + ELF_MIN_ALIGNMENT - 1))

\* C5: every completed memcpy and mprotect of load(), and the memory image of
\* every segment load() has placed, lies inside the reservation made by the one
\* mmap call of that load().
C5_InsideReservation ==
    /\ \A j \in 1..Len(syscalls) :
          (syscalls[j].call \in {"memcpy", "mprotect"} /\ syscalls[j].ret = 0) =>
              InReservation(syscalls[j].addr, syscalls[j].len, ReservationOf(j))
    /\ (pc \in {"load_seg", "stack"}) =>
          \A k \in 1..seg_idx :
              LET S == ActiveInfo.segments[k]
              IN  InReservation(load_base + S.virt_addr, S.memsize,
                                ReservationOf(Len(syscalls) + 1))

\* the protection set a raw p_flags word stands for
Decoded(pflags) ==
    {x \in {"EXEC", "WRITE", "READ"} :
        \/ x = "EXEC" /\ pflags % 2 = 1
        \/ x = "WRITE" /\ (pflags \div 2) % 2 = 1
        \/ x = "READ" /\ (pflags \div 4) % 2 = 1}

\* C6: after load() returns for the victim, every page that holds part of a
\* segment's memory image is mapped with exactly the protection decoded from that
\* segment's p_flags in the file.
C6_ExactProtection ==
    (pc = "stack") =>
        LET loads == LoadsOf(TrueEntries(victim_file[1]))
            segs  == binary_info[1].segments
        IN  \A k \in 1..Len(segs) :
              \A p \in PagesOf(VictimBase + segs[k].virt_addr, segs[k].memsize) :
                  p \in DOMAIN pages /\ pages[p] = Decoded(loads[k].pflags)

-----------------------------------------------------------------------------
(* Claims about the stack *)

\* the value of the 8-byte little-endian slot at address a (-1 when it does not
\* fit the address width of the model)
ReadWord(a) ==
    IF (\E i \in 4..7 : Read(mem, a + i) # 0) \/ Read(mem, a + 3) > 1 THEN -1
    ELSE Read(mem, a) + 256 * Read(mem, a + 1) + 65536 * Read(mem, a + 2)
         + 16777216 * Read(mem, a + 3)

\* the n bytes at address a
ReadBytes(a, n) == [i \in 1..n |-> Read(mem, a + i - 1)]

\* setup_stack has returned rsp
StackBuilt == pc \in {"trampoline", "entered"}

\* argc and envc the victim is to see
VictimArgc == Len(args) - 1
VictimEnvc == Len(env)

\* the i-th slot above rsp
SlotAt(i) == ReadWord(rsp + 8 * i)

\* the address of the n-th (id, value) pair of the auxiliary vector, n from 0
AuxAt(n) == rsp + 8 * (VictimArgc + VictimEnvc + 3) + 16 * n

\* C7: rsp is a multiple of 16 and the slots at rsp read argc, argc non-zero
\* pointers, 0, envc non-zero pointers, 0, then (id, value) pairs up to a pair (0, 0).
C7_StackLayout ==
    StackBuilt =>
        /\ rsp % 16 = 0
        /\ SlotAt(0) = VictimArgc
        /\ \A i \in 1..VictimArgc : SlotAt(i) \notin {0, -1}
        /\ SlotAt(VictimArgc + 1) = 0
        /\ \A j \in 1..VictimEnvc : SlotAt(VictimArgc + 1 + j) \notin {0, -1}
        /\ SlotAt(VictimArgc + VictimEnvc + 2) = 0
        /\ \E n \in 0..31 :
              /\ ReadWord(AuxAt(n)) = 0
              /\ ReadWord(AuxAt(n) + 8) = 0
              /\ \A m \in 0..(n - 1) : ReadWord(AuxAt(m)) > 0

\* C7 witness: a stack was returned for three victim arguments and two variables
C7_Witness ==
    /\ pc = "trampoline"
    /\ VictimArgc = 3
    /\ VictimEnvc = 2
    /\ rsp > stack_end
    /\ SlotAt(0) = 3
    /\ SlotAt(4) = 0

\* the i-th argument the victim is to see, i from 0: the loader's argv without
\* its entry 1
KeptArg(i) == IF i = 0 THEN args[1] ELSE args[i + 2]

\* C8: argv slot i points to the bytes of the i-th retained argument followed by
\* NUL, and envp slot j to name=value followed by NUL, in the finished stack.
C8_ArgvEnvpStrings ==
    StackBuilt =>
        /\ \A i \in 0..(VictimArgc - 1) :
              ReadBytes(SlotAt(1 + i), Len(KeptArg(i)) + 1) = KeptArg(i) \o <<0>>
        /\ \A j \in 0..(VictimEnvc - 1) :
              LET nv == env[j + 1][1] \o <<61>> \o env[j + 1][2] \o <<0>>
              IN  ReadBytes(SlotAt(VictimArgc + 2 + j), Len(nv)) = nv

\* C8 witness: four retained arguments of different lengths and three variables
\* were copied and the stack was returned
C8_Witness ==
    /\ pc = "trampoline"
    /\ VictimArgc = 4
    /\ VictimEnvc = 3
    /\ ReadBytes(SlotAt(4), 4) = <<99, 99, 99, 0>>
    /\ SlotAt(1) < SlotAt(4)

\* C9: the value of the AT_EXECFN pair is the pointer in argv slot 0.
C9_ExecFnIsArgv0 ==
    StackBuilt =>
        /\ \E n \in 0..18 : ReadWord(AuxAt(n)) = 31
        /\ \A n \in 0..18 :
              ReadWord(AuxAt(n)) = 31 => ReadWord(AuxAt(n) + 8) = SlotAt(1)

\* the ids of the auxiliary vector in the order of the documentation
AuxIdOrder == <<33, 16, 6, 17, 26, 3, 4, 5, 7, 8, 9, 11, 12, 13, 14, 23, 25, 31, 0>>

\* the value stored for the auxiliary id
AuxValue(id) ==
    ReadWord(AuxAt((CHOOSE n \in 1..19 : AuxIdOrder[n] = id) - 1) + 8)

\* C10: the auxiliary vector holds the ids in the documented order, with AT_PHDR,
\* AT_PHENT, AT_PHNUM, AT_BASE, AT_FLAGS and AT_ENTRY as documented, and ends
\* with (AT_NULL, 0).
C10_AuxVector ==
    StackBuilt =>
        LET file    == victim_file[1]
            load_at == binary_load[1]
        IN  /\ \A n \in 1..19 : ReadWord(AuxAt(n - 1)) = AuxIdOrder[n]
            /\ AuxValue(3) = load_at + file[33]
            /\ AuxValue(4) = 56
            /\ AuxValue(5) = file[57]
            /\ AuxValue(7) = (IF binary_info[1].elf_interp = <<>> THEN 0 ELSE loader_load[1])
            /\ AuxValue(8) = 0
            /\ AuxValue(9) = (IF file[17] = 2 THEN file[25] ELSE load_at + file[25])
            /\ AuxValue(0) = 0

\* C10 witness: a stack was returned for an ET_DYN victim with an interpreter,
\* loaded at a non-zero address, with a non-zero entry point
C10_Witness ==
    /\ pc = "trampoline"
    /\ victim_file[1][17] = 3
    /\ victim_file[1][25] > 0
    /\ binary_info[1].elf_interp # <<>>
    /\ interp_base > 0
    /\ binary_load[1] > 0
    /\ AuxValue(9) = binary_load[1] + victim_file[1][25]

\* the address one past the last byte of the table write-out
TablesEnd == AuxAt(19)

\* C11: in the returned stack the 16 bytes at the AT_RANDOM address are the seed
\* the RNG produced, and the table write-out ends at or below the seed address.
C11_SeedIntact ==
    StackBuilt =>
        /\ AuxValue(25) = prng_pointer
        /\ ReadBytes(AuxValue(25), 16) = seed_bytes
        /\ TablesEnd <= prng_pointer

-----------------------------------------------------------------------------
(* Claims about the trampoline *)

\* the general-purpose registers other than the stack pointer
ZeroedRegs == {"rax", "rbx", "rcx", "rdx", "rsi", "rdi", "rbp",
               "r8", "r9", "r10", "r11", "r12", "r13", "r14", "r15"}

\* C12: at the entry point the stack pointer is the rsp of setup_stack, the
\* instruction pointer is the chosen entry point, and every other general-purpose
\* register is zero.
C12_CleanRegisters ==
    (pc = "entered") =>
        /\ regs["rsp"] = rsp
        /\ rip = entry_point
        /\ \A r \in ZeroedRegs : regs[r] = 0

\* the memory image [base + virt_addr, base + virt_addr + memsize) of a victim segment
InVictimImage(a) ==
    \E k \in 1..Len(binary_info[1].segments) :
        LET S == binary_info[1].segments[k]
        IN  VictimBase + S.virt_addr <= a /\ a < VictimBase + S.virt_addr + S.memsize

\* C13: without PT_INTERP the jump target is the AT_ENTRY value (for ET_DYN
\* load_addr + entry_point, inside the victim's image); with PT_INTERP it is the
\* interpreter's entry plus its load base, and AT_BASE is that load base.
C13_JumpTarget ==
    (pc = "entered") =>
        LET file == victim_file[1]
        IN  IF binary_info[1].elf_interp = <<>>
            THEN /\ rip = AuxValue(9)
                 /\ file[17] = 3 => (rip = binary_load[1] + file[25] /\ InVictimImage(rip))
            ELSE /\ rip = interp_file[1][25] + loader_load[1]
                 /\ AuxValue(7) = loader_load[1]

-----------------------------------------------------------------------------
(* Claims about the bounds of the stack mapping *)

\* setup_stack is between its mmap call and its return
StackPhase == pc \in {"stack_env", "stack_args", "stack_tables", "stack_aux", "trampoline"}

\* the pages reserved by the load() calls: every mmap before the stack's, which is
\* the last one in the log during setup_stack
LoadPages ==
    UNION { PagesOf(syscalls[i].ret, syscalls[i].len) :
              i \in {j \in 1..(Len(syscalls) - 1) :
                        syscalls[j].call = "mmap" /\ syscalls[j].ret # -1} }

\* C14: every byte setup_stack has written lies inside the region
\* [stack_end, stack_end + stack_size) its mmap returned, and so does the rsp it
\* returns.
C14_InsideStackMapping ==
    StackPhase =>
        /\ \A a \in DOMAIN mem :
              PageNo(a) \notin LoadPages => (stack_end <= a /\ a < stack_end + stack_size)
        /\ (pc = "trampoline") => (stack_end <= rsp /\ rsp < stack_end + stack_size)

====
